---- MODULE Spec2Model ----
(***************************************************************************)
(* Open-interest screener: the acquisition loop (Producer), its daily-      *)
(* ticker sub-loop, the detection loop (Consumer) and the notification      *)
(* tasks it spawns, as asyncio coroutines.                                  *)
(*                                                                          *)
(* asyncio runs one coroutine at a time and switches only where a coroutine *)
(* suspends, so one action of this module is the code one task runs between *)
(* two suspension points.  `async with lock` on a free asyncio.Lock and     *)
(* `await coro()` of a coroutine that never suspends do not suspend.        *)
(*                                                                          *)
(* Time is the wall clock in seconds (time.time()); sample timestamps are   *)
(* milliseconds.  Open-interest growth is a rational number, kept as a      *)
(* numerator/denominator pair.                                              *)
(***************************************************************************)
EXTENDS Integers, Sequences, FiniteSets, TLC

(* ------------------------------ bounds -------------------------------- *)
\* number of steps of the clock
MaxTicks == 2
\* longest per-symbol window kept in the store
MaxLen == 2
\* number of update_settings calls
MaxUpdates == 1
\* requests of one chunk (Producer._CHUNK_SIZE, _DEFAULT_CHUNK_SIZE: 20 or 7)
ChunkSize == 2
\* longest argument of _calculate_open_interest
MaxCalcLen == 4
\* longest of the short polling intervals, seconds
MaxInterval == 3

(* ------------------------- program constants -------------------------- *)
\* Producer._MAX_HISTORY_LEN = 60 * 15
MAX_HISTORY_LEN == 900
\* seconds to milliseconds, as in (time.time() - x) * 1000
MsPerSec == 1000
\* the factor of the percentage
Hundred == 100

\* Producer._DEFAULT_PARSE_INTERVAL and Producer._PARSE_INTERVAL[ASTER]
DEFAULT_PARSE_INTERVAL == 5
ASTER_PARSE_INTERVAL == 20

(* ------------------------------ domains ------------------------------- *)
\* the polling intervals: the short ones, and the two of the program
ParseIntervals ==
  (1..MaxInterval) \cup {DEFAULT_PARSE_INTERVAL, ASTER_PARSE_INTERVAL}
\* the clock advances by the retention horizon, so that a sample is seen on
\* the boundary of the horizon (kept) and beyond it (pruned)
ClockStep == MAX_HISTORY_LEN
Symbols == {"A", "B", "C"}
SymOrder == <<"A", "B", "C">>
Values == {100, 150}
\* the values of a sample in a call of _calculate_open_interest alone
CalcValues == {0, 80, 90, 100, 150}

OIItem(t, v) == [t |-> t, v |-> v]
DailyStat == [p |-> 1, q |-> 10]

VARIABLES
  now,            \* time.time(), seconds
  t_end,          \* the time at which the clock of the run stops
  universe,       \* the symbols the exchange trades
  p_running,      \* Producer._is_running
  p_pc,           \* where Producer.start is suspended
  p_snapshot,     \* Producer.start's local `snapshot`
  open_interest,  \* Producer._open_interest (<<>>: no key)
  ticker_daily,   \* Producer._ticker_daily
  t_pc,           \* where Producer._update_ticker_daily is suspended
  t_got,          \* ghost: how the last fetch of the ticker task ended
  settings,       \* Consumer._settings (id: the object's identity)
  c_running,      \* Consumer._running
  c_pc,           \* where Consumer.start is suspended
  tracker,        \* Consumer._timeout_tracker: symbol -> deadline
  tasks,          \* notification tasks created and not finished
  c_tasks,        \* Consumer._process's local `tasks`
  c_exc,          \* the gather of c_tasks has an exception set
  lastSent,       \* history: the last dispatch per symbol
  lastMerge,      \* history: the last merge (time, store before, snapshot)
  oi_committed,   \* history: the store when the last merge call returned
  c_obs,          \* history: what the last detection tick read and did
  batched,        \* the exchange has no bulk endpoint (BINANCE, BINGX, GATE)
  parse_interval, \* _PARSE_INTERVAL.get(exchange, _DEFAULT_PARSE_INTERVAL)
  p_left,         \* _safe_sleep: the passes of its loop still to come
  p_cut,          \* ghost: the passes the last return of _safe_sleep left out
  b_k,            \* _fetch_open_interest_snapshot_batched: index of the chunk
  b_resp,         \* the responses received for the requests of the chunk
  b_results,      \* its local `results`
  b_log,          \* history: every response of the iteration
  calc_in,        \* the argument of _calculate_open_interest
  calc_out        \* its result

envVars == <<now, t_end, universe, batched, parse_interval>>
prodVars == <<p_running, p_pc, p_snapshot, open_interest, lastMerge, oi_committed,
              p_left, p_cut>>
batchVars == <<b_k, b_resp, b_results, b_log>>
tickVars == <<ticker_daily, t_pc, t_got>>
consVars == <<settings, c_running, c_pc, tracker, tasks, c_tasks, c_exc, lastSent,
              c_obs>>
calcVars == <<calc_in, calc_out>>
vars == <<envVars, prodVars, batchVars, tickVars, consVars, calcVars>>

(* ----------------------- Consumer: pure functions --------------------- *)
\* a growth percentage: undefined (None), or the rational num / den
NoPct == [def |-> FALSE, num |-> 0, den |-> 1]
Pct(num, den) == [def |-> TRUE, num |-> num, den |-> den]

\* the running state of the scan: found, _min, _max (min, max are read only
\* once found: before that they stand for +inf and -inf)
ScanInit == [found |-> FALSE, min |-> 0, max |-> 0]

\* a faulty variant of ScanStep: a new minimum keeps the maximum seen before it
ScanStepNoReset(acc, el, time_threshold) ==
  IF el.t < time_threshold
    THEN acc
    ELSE LET a1 == IF ~acc.found
                     THEN [found |-> TRUE, min |-> el.v, max |-> el.v]
                     ELSE IF el.v < acc.min THEN [acc EXCEPT !.min = el.v] ELSE acc
         IN  IF el.v > a1.max THEN [a1 EXCEPT !.max = el.v] ELSE a1

\* one pass of the for loop of _calculate_open_interest over element el
ScanStep(acc, el, time_threshold) ==
  IF el.t < time_threshold
    THEN acc
    ELSE LET a1 == IF (~acc.found) \/ el.v < acc.min
                     THEN [found |-> TRUE, min |-> el.v, max |-> el.v]
                     ELSE acc
         IN  IF el.v > a1.max THEN [a1 EXCEPT !.max = el.v] ELSE a1

RECURSIVE ScanFrom(_, _, _, _)
ScanFrom(open_interest_list, i, acc, time_threshold) ==
  IF i > Len(open_interest_list)
    THEN acc
    ELSE ScanFrom(open_interest_list, i + 1,
                  ScanStep(acc, open_interest_list[i], time_threshold),
                  time_threshold)

\* a faulty variant of CalculateOpenInterest: the division by zero is not caught
CalculateOpenInterestNoCatch(open_interest_list, interval, tnow) ==
  LET time_threshold == (tnow - interval) * MsPerSec
      r == ScanFrom(open_interest_list, 1, ScanInit, time_threshold)
  IN  IF ~r.found THEN NoPct
      ELSE Pct((r.max - r.min) * Hundred, r.min)

\* Consumer._calculate_open_interest, with time.time() = tnow and
\* self._settings.interval = interval
CalculateOpenInterest(open_interest_list, interval, tnow) ==
  LET time_threshold == (tnow - interval) * MsPerSec
      r == ScanFrom(open_interest_list, 1, ScanInit, time_threshold)
  IN  IF ~r.found THEN NoPct
      ELSE IF r.min = 0 THEN NoPct              \* ZeroDivisionError
      ELSE Pct((r.max - r.min) * Hundred, r.min)

\* Python's truth value of change_pct: None and 0.0 are false
Truthy(pct) == pct.def /\ pct.num # 0

\* change_pct > g, for change_pct = num / den
PctGreater(pct, g) ==
  IF pct.den > 0 THEN pct.num > g * pct.den ELSE pct.num < g * pct.den

\* the condition of Consumer._process_symbol under which it creates a task
SymbolFires(change_pct, min_growth_prct) ==
  Truthy(change_pct) /\ PctGreater(change_pct, min_growth_prct)

(* ------------------- TimeoutTracker (unicex.extra) -------------------- *)
\* the tracker is a mapping key -> deadline; a key without an entry, or whose
\* deadline has passed, is not blocked
IsBlocked(trk, key, tnow) == key \in DOMAIN trk /\ tnow < trk[key]

\* a faulty variant of Block: a second block extends the deadline it finds
BlockExtends(trk, key, duration, tnow) ==
  [k \in DOMAIN trk \cup {key} |->
     IF k = key
       THEN (IF key \in DOMAIN trk THEN trk[key] ELSE tnow) + duration
       ELSE trk[k]]

Block(trk, key, duration, tnow) ==
  [k \in DOMAIN trk \cup {key} |-> IF k = key THEN tnow + duration ELSE trk[k]]

(* ----------------------- Producer: pure functions --------------------- *)
Keys(store) == {s \in DOMAIN store : store[s] # <<>>}

\* a faulty variant of Prune: nothing is dropped
PruneNothing(seq, threshold) == seq

Prune(seq, threshold) == SelectSeq(seq, LAMBDA el : el.t >= threshold)

\* a faulty variant of ProcessSnapshot: every window is pruned, not only the snapshot's
ProcessSnapshotPruneAll(store, snapshot, tnow) ==
  [s \in DOMAIN store |->
     IF s \in DOMAIN snapshot
       THEN Append(SelectSeq(store[s],
                             LAMBDA el : el.t >= (tnow - MAX_HISTORY_LEN) * MsPerSec),
                   snapshot[s])
       ELSE SelectSeq(store[s],
                      LAMBDA el : el.t >= (tnow - MAX_HISTORY_LEN) * MsPerSec)]

\* Producer._process_snapshot, with time.time() = tnow
ProcessSnapshot(store, snapshot, tnow) ==
  LET threshold == (tnow - MAX_HISTORY_LEN) * MsPerSec
  IN  [s \in DOMAIN store |->
         IF s \in DOMAIN snapshot
           THEN Append(Prune(store[s], threshold), snapshot[s])
           ELSE store[s]]


\* a faulty variant of MergeBatch: the merge loop suspends after each ticker
MergeBatchYielding(snapshot) ==
  IF DOMAIN snapshot = {} THEN {} ELSE {CHOOSE s \in DOMAIN snapshot : TRUE}

\* the tickers _process_snapshot merges before the producer task can be
\* suspended: all of them (a plain def holds the event loop until it returns)
MergeBatch(snapshot) == DOMAIN snapshot

Restrict(f, D) == [x \in D |-> f[x]]
Empty == Restrict([s \in Symbols |-> 0], {})

(* ------------------------------- Init --------------------------------- *)
SettingsValue(r, g, c) ==
  [is_ready |-> r, min_growth_prct |-> g, interval |-> ClockStep, timeout |-> c]
\* the settings the operator switches between
SettingsValues ==
  {SettingsValue(FALSE, 25, ClockStep), SettingsValue(TRUE, 25, ClockStep),
   SettingsValue(TRUE, -1, ClockStep), SettingsValue(TRUE, 25, 2 * ClockStep)}
WithId(sv, id) ==
  [id |-> id, is_ready |-> sv.is_ready, min_growth_prct |-> sv.min_growth_prct,
   interval |-> sv.interval, timeout |-> sv.timeout]

NoSent == [at |-> 0, cooldown |-> 0, n |-> 0]
NoGot == [ok |-> FALSE, snap |-> Empty, held |-> {}]
NoMerge == [done |-> FALSE, at |-> 0, syms |-> {}, failed |-> FALSE, held |-> {}]
NoObs == [n |-> FALSE, latest |-> 0, reads |-> {}, fetched |-> {}, torn |-> FALSE,
          merged |-> {}, fired |-> {}, suppressed |-> {}, raised |-> FALSE,
          afterRaise |-> FALSE, locks |-> <<>>]
NotCalled == [def |-> FALSE, num |-> 0, den |-> 0]

\* the state after Producer.__init__ and Consumer.__init__
InitProgram ==
  /\ t_end \in {k * ClockStep : k \in 0..MaxTicks}
  /\ universe \in SUBSET Symbols
  /\ batched \in BOOLEAN
  /\ parse_interval \in ParseIntervals
  /\ p_left = 0
  /\ p_cut = 0
  /\ p_running = TRUE
  /\ p_pc = "init"
  /\ p_snapshot = Empty
  /\ open_interest = [s \in Symbols |-> <<>>]
  /\ lastMerge = NoMerge
  /\ oi_committed = [s \in Symbols |-> <<>>]
  /\ b_k = 0
  /\ b_resp = Empty
  /\ b_results = Empty
  /\ b_log = Empty
  /\ ticker_daily = Empty
  /\ t_pc = "none"
  /\ t_got = NoGot
  /\ settings \in {WithId(sv, 0) : sv \in SettingsValues}
  /\ c_running = TRUE
  /\ c_pc = "start"
  /\ tracker = Empty
  /\ tasks = {}
  /\ c_tasks = {}
  /\ c_exc = FALSE
  /\ lastSent = [s \in Symbols |-> NoSent]
  /\ c_obs = NoObs

Init ==
  /\ InitProgram
  /\ now = 0
  /\ calc_in = <<>>
  /\ calc_out = NotCalled

(* ------------------------------ clock --------------------------------- *)
Tick ==
  /\ now + ClockStep <= t_end
  /\ now' = now + ClockStep
  /\ UNCHANGED <<t_end, universe, batched, parse_interval>>
  /\ UNCHANGED <<prodVars, batchVars, tickVars, consVars, calcVars>>

(* ----------------------------- Producer ------------------------------- *)
\* p_pc: "init"   Producer.start not yet called
\*       "fetch"  awaiting the client's creation or the snapshot (bulk)
\*       "list"   batched: awaiting futures_tickers_batched
\*       "gather" batched: awaiting the gather of a chunk's requests
\*       "pause"  batched: awaiting the sleep between chunks
\*       "held"   the snapshot is fetched; awaiting the last-price fetch of the
\*                normalization or the client's exit
\*       "sleep"  in _safe_sleep
\*       "done"   Producer.start returned

\* the while condition of Producer.start, then the client creation it awaits
ProducerLoopTop == IF p_running THEN "fetch" ELSE "done"

\* _safe_sleep up to its first suspension, and the while condition if it
\* returns at once
ProducerEnterSleep == IF p_running THEN "sleep" ELSE "done"
\* the passes of the loop of _safe_sleep that follow its first sleep(1)
SleepLeft == IF p_running THEN parse_interval - 1 ELSE 0

\* Producer.start up to its first await: the ticker task is created
ProducerStart ==
  /\ p_pc = "init"
  /\ t_pc' = "start"
  /\ p_pc' = ProducerLoopTop
  /\ UNCHANGED <<p_left, p_cut, p_running, p_snapshot, open_interest, lastMerge, oi_committed>>
  /\ UNCHANGED <<envVars, batchVars, ticker_daily, t_got, consVars, calcVars>>

\* the item an exchange answers for a symbol at time tnow
Items(tnow) == {OIItem(tnow * MsPerSec, v) : v \in Values}

\* the symbols whose window has room for one more sample
Room(store, tnow) ==
  {s \in universe :
     Len(Prune(store[s], (tnow - MAX_HISTORY_LEN) * MsPerSec)) < MaxLen}

\* client.open_interest() returns the snapshot of an exchange with a bulk
\* endpoint; normalization and the client's exit follow
ProducerFetchOk ==
  /\ p_pc = "fetch"
  /\ ~batched
  /\ \E D \in SUBSET Room(open_interest, now) :
       \E snap \in [D -> Items(now)] : p_snapshot' = snap
  /\ p_pc' = "held"
  /\ UNCHANGED <<p_left, p_cut, p_running, open_interest, lastMerge, oi_committed>>
  /\ UNCHANGED <<envVars, batchVars, tickVars, consVars, calcVars>>

\* the locks the producer task holds during _process_snapshot
MergeLocks == {"open_interest"}

\* the client context is left; under the lock _process_snapshot merges; then
\* _safe_sleep runs to its first sleep(1)
ProducerMerge ==
  /\ p_pc = "held"
  /\ LET batch == MergeBatch(p_snapshot)
         rest == DOMAIN p_snapshot \ batch
     IN  /\ open_interest' =
              ProcessSnapshot(open_interest, Restrict(p_snapshot, batch), now)
         /\ IF rest = {}
              THEN /\ p_snapshot' = Empty
                   /\ oi_committed' = open_interest'
                   /\ lastMerge' = [done |-> TRUE, at |-> now,
                                    syms |-> DOMAIN p_snapshot, failed |-> FALSE,
                                    held |-> MergeLocks]
                   /\ p_pc' = ProducerEnterSleep
                   /\ p_left' = SleepLeft
                   /\ UNCHANGED p_cut
              ELSE /\ p_snapshot' = Restrict(p_snapshot, rest)
                   /\ UNCHANGED <<oi_committed, lastMerge, p_pc, p_left, p_cut>>
  /\ UNCHANGED p_running
  /\ UNCHANGED <<envVars, batchVars, tickVars, consVars, calcVars>>

\* a faulty variant of ProducerFail: the exception leaves Producer.start
ProducerFailFatal ==
  /\ p_pc \in {"fetch", "list", "held"}
  /\ p_snapshot' = Empty
  /\ p_pc' = "done"
  /\ p_left' = 0
  /\ UNCHANGED p_cut
  /\ b_k' = 0
  /\ b_resp' = Empty
  /\ b_results' = Empty
  /\ lastMerge' = [NoMerge EXCEPT !.failed = TRUE]
  /\ UNCHANGED <<p_running, open_interest, oi_committed, b_log>>
  /\ UNCHANGED <<envVars, tickVars, consVars, calcVars>>

\* a faulty variant of ProducerFail: what was fetched is merged all the same
ProducerFailStoring ==
  /\ p_pc \in {"fetch", "list", "held"}
  /\ open_interest' = ProcessSnapshot(open_interest, p_snapshot, now)
  /\ p_snapshot' = Empty
  /\ p_pc' = ProducerEnterSleep
  /\ p_left' = SleepLeft
  /\ UNCHANGED p_cut
  /\ b_k' = 0
  /\ b_resp' = Empty
  /\ b_results' = Empty
  /\ lastMerge' = [NoMerge EXCEPT !.failed = TRUE]
  /\ UNCHANGED <<p_running, oi_committed, b_log>>
  /\ UNCHANGED <<envVars, tickVars, consVars, calcVars>>

\* an awaited call of the iteration raises (TimeoutError or another
\* Exception): it is logged, and _safe_sleep follows
ProducerFail ==
  /\ p_pc \in {"fetch", "list", "held"}
  /\ p_snapshot' = Empty
  /\ p_pc' = ProducerEnterSleep
  /\ p_left' = SleepLeft
  /\ UNCHANGED p_cut
  /\ b_k' = 0
  /\ b_resp' = Empty
  /\ b_results' = Empty
  /\ lastMerge' = [NoMerge EXCEPT !.failed = TRUE]
  /\ UNCHANGED <<p_running, open_interest, oi_committed, b_log>>
  /\ UNCHANGED <<envVars, tickVars, consVars, calcVars>>

\* a faulty variant of ProducerWake: the sleep does not look at the flag
ProducerWakeDeaf ==
  /\ p_pc = "sleep"
  /\ IF p_left > 0
       THEN /\ p_left' = p_left - 1
            /\ UNCHANGED <<p_pc, lastMerge, b_log, p_cut>>
       ELSE /\ p_pc' = ProducerLoopTop
            /\ p_left' = 0
            /\ p_cut' = p_left
            /\ lastMerge' = [NoMerge EXCEPT !.failed = lastMerge.failed]
            /\ b_log' = Empty
  /\ UNCHANGED <<p_running, p_snapshot, open_interest, oi_committed>>
  /\ UNCHANGED <<envVars, b_k, b_resp, b_results, tickVars, consVars, calcVars>>

\* a sleep(1) of _safe_sleep returns: the next pass of its loop checks the
\* flag and sleeps again; after the last pass, or with the flag down,
\* _safe_sleep returns and the while condition of Producer.start follows
ProducerWake ==
  /\ p_pc = "sleep"
  /\ IF p_left > 0 /\ p_running
       THEN /\ p_left' = p_left - 1
            /\ UNCHANGED <<p_pc, lastMerge, b_log, p_cut>>
       ELSE /\ p_pc' = ProducerLoopTop
            /\ p_left' = 0
            /\ p_cut' = p_left
            /\ lastMerge' = [NoMerge EXCEPT !.failed = lastMerge.failed]
            /\ b_log' = Empty
  /\ UNCHANGED <<p_running, p_snapshot, open_interest, oi_committed>>
  /\ UNCHANGED <<envVars, b_k, b_resp, b_results, tickVars, consVars, calcVars>>

\* Producer.stop
ProducerStop ==
  /\ p_running
  /\ p_running' = FALSE
  /\ UNCHANGED <<p_left, p_cut, p_pc, p_snapshot, open_interest, lastMerge, oi_committed>>
  /\ UNCHANGED <<envVars, batchVars, tickVars, consVars, calcVars>>

(* ---------------- Producer: the batched snapshot fetch ---------------- *)
Min(a, b) == IF a < b THEN a ELSE b

\* futures_tickers_batched(batch_size): the tickers of the exchange, in chunks
Tickers == SelectSeq(SymOrder, LAMBDA x : x \in universe)
NumChunks == (Len(Tickers) + ChunkSize - 1) \div ChunkSize
Chunk(k) ==
  SubSeq(Tickers, (k - 1) * ChunkSize + 1, Min(k * ChunkSize, Len(Tickers)))
SeqSet(q) == {q[i] : i \in 1..Len(q)}

\* a response of client.open_interest(ticker), as gather(return_exceptions=
\* True) hands it over: an exception, an empty answer, or an item
RespExc == [kind |-> "exc", item |-> OIItem(0, 0)]
RespEmpty == [kind |-> "empty", item |-> OIItem(0, 0)]
RespItem(it) == [kind |-> "item", item |-> it]

\* a faulty variant of ChunkResults: the first failed request ends the loop
RECURSIVE ChunkResultsBreak(_, _, _, _)
ChunkResultsBreak(chunk, responses, results, i) ==
  IF i > Len(chunk) THEN results
  ELSE LET ticker == chunk[i]
           response == responses[ticker]
       IN  IF response.kind \in {"exc", "empty"}
             THEN results
           ELSE ChunkResultsBreak(chunk, responses,
                                  [t \in DOMAIN results \cup {ticker} |->
                                     IF t = ticker THEN response.item ELSE results[t]],
                                  i + 1)

\* the for loop over zip(chunk, responses) from position i
RECURSIVE ChunkResults(_, _, _, _)
ChunkResults(chunk, responses, results, i) ==
  IF i > Len(chunk) THEN results
  ELSE LET ticker == chunk[i]
           response == responses[ticker]
       IN  IF response.kind = "exc"
             THEN ChunkResults(chunk, responses, results, i + 1)   \* continue
           ELSE IF response.kind = "empty"
             THEN ChunkResults(chunk, responses, results, i + 1)   \* continue
           ELSE ChunkResults(chunk, responses,
                             [t \in DOMAIN results \cup {ticker} |->
                                IF t = ticker THEN response.item ELSE results[t]],
                             i + 1)

\* the client is created; futures_tickers_batched is awaited
BatchClientOk ==
  /\ p_pc = "fetch"
  /\ batched
  /\ p_pc' = "list"
  /\ UNCHANGED <<p_left, p_cut, p_running, p_snapshot, open_interest, lastMerge, oi_committed>>
  /\ UNCHANGED <<envVars, batchVars, tickVars, consVars, calcVars>>

\* the chunked ticker list is returned: the requests of the first chunk are
\* issued and their gather is awaited (no chunk: the empty result is returned)
BatchListOk ==
  /\ p_pc = "list"
  /\ b_resp' = Empty
  /\ b_results' = Empty
  /\ IF NumChunks = 0
       THEN /\ p_pc' = "held"
            /\ p_snapshot' = Empty
            /\ b_k' = 0
       ELSE /\ p_pc' = "gather"
            /\ b_k' = 1
            /\ UNCHANGED p_snapshot
  /\ UNCHANGED <<p_left, p_cut, p_running, open_interest, lastMerge, oi_committed, b_log>>
  /\ UNCHANGED <<envVars, tickVars, consVars, calcVars>>

\* one request of the chunk completes
BatchResponse ==
  /\ p_pc = "gather"
  /\ \E ticker \in SeqSet(Chunk(b_k)) \ DOMAIN b_resp :
       \E r \in {RespExc, RespEmpty}
                \cup (IF ticker \in Room(open_interest, now)
                        THEN {RespItem(it) : it \in Items(now)} ELSE {}) :
         /\ b_resp' = [t \in DOMAIN b_resp \cup {ticker} |->
                         IF t = ticker THEN r ELSE b_resp[t]]
         /\ b_log' = [t \in DOMAIN b_log \cup {ticker} |->
                        IF t = ticker THEN r ELSE b_log[t]]
  /\ UNCHANGED <<prodVars, b_k, b_results>>
  /\ UNCHANGED <<envVars, tickVars, consVars, calcVars>>

\* a faulty variant of BatchGatherDone: the first response ends the wait
BatchGatherDoneFirst ==
  /\ p_pc = "gather"
  /\ DOMAIN b_resp # {}
  /\ b_results' =
       ChunkResults(SelectSeq(Chunk(b_k), LAMBDA t : t \in DOMAIN b_resp),
                    b_resp, b_results, 1)
  /\ b_resp' = Empty
  /\ p_pc' = "pause"
  /\ UNCHANGED <<p_left, p_cut, p_running, p_snapshot, open_interest, lastMerge, oi_committed,
                 b_k, b_log>>
  /\ UNCHANGED <<envVars, tickVars, consVars, calcVars>>

\* every request of the chunk completed: gather returns, the responses are
\* filed, and the pause between chunks is awaited
BatchGatherDone ==
  /\ p_pc = "gather"
  /\ DOMAIN b_resp = SeqSet(Chunk(b_k))
  /\ b_results' = ChunkResults(Chunk(b_k), b_resp, b_results, 1)
  /\ b_resp' = Empty
  /\ p_pc' = "pause"
  /\ UNCHANGED <<p_left, p_cut, p_running, p_snapshot, open_interest, lastMerge, oi_committed,
                 b_k, b_log>>
  /\ UNCHANGED <<envVars, tickVars, consVars, calcVars>>

\* the pause is over: the next chunk's requests are issued, or the results are
\* returned
BatchPauseDone ==
  /\ p_pc = "pause"
  /\ IF b_k < NumChunks
       THEN /\ b_k' = b_k + 1
            /\ p_pc' = "gather"
            /\ UNCHANGED <<p_snapshot, b_results>>
       ELSE /\ b_k' = 0
            /\ p_pc' = "held"
            /\ p_snapshot' = b_results
            /\ b_results' = Empty
  /\ UNCHANGED <<p_left, p_cut, p_running, open_interest, lastMerge, oi_committed, b_resp, b_log>>
  /\ UNCHANGED <<envVars, tickVars, consVars, calcVars>>

(* ----------------------- daily-ticker sub-loop ------------------------ *)
\* the while condition of _update_ticker_daily, then the awaited fetch
TickerWake ==
  /\ t_pc \in {"start", "sleep"}
  /\ t_pc' = IF p_running THEN "fetch" ELSE "done"
  /\ UNCHANGED <<ticker_daily, t_got>>
  /\ UNCHANGED <<envVars, prodVars, batchVars, consVars, calcVars>>

\* the locks the ticker task holds at its assignment of _ticker_daily: the
\* assignment is inside `async with self._client_context()` alone
ReplaceLocks == {}

\* a faulty variant of ReplaceCache: the fetched entries are merged into the
\* cache
ReplaceCacheMerging(cache, fetched) ==
  [s \in DOMAIN cache \cup DOMAIN fetched |->
     IF s \in DOMAIN fetched THEN fetched[s] ELSE cache[s]]

\* self._ticker_daily = await client.futures_ticker_24hr()
ReplaceCache(cache, fetched) == fetched

\* futures_ticker_24hr returns: the cache is replaced; sleep is awaited
TickerFetchOk ==
  /\ t_pc = "fetch"
  /\ \E D \in SUBSET universe :
       LET fetched == [s \in D |-> DailyStat]
       IN  /\ ticker_daily' = ReplaceCache(ticker_daily, fetched)
           /\ t_got' = [ok |-> TRUE, snap |-> fetched, held |-> ReplaceLocks]
  /\ t_pc' = "sleep"
  /\ UNCHANGED <<envVars, prodVars, batchVars, consVars, calcVars>>

\* the client or the fetch raises: logged; sleep is awaited
TickerFetchFail ==
  /\ t_pc = "fetch"
  /\ t_pc' = "sleep"
  /\ t_got' = NoGot
  /\ UNCHANGED ticker_daily
  /\ UNCHANGED <<envVars, prodVars, batchVars, consVars, calcVars>>

(* ----------------------------- Consumer ------------------------------- *)
\* c_pc: "start"  Consumer.start not yet run
\*       "gather" awaiting asyncio.gather(*tasks) in _process
\*       "sleep"  awaiting asyncio.sleep(_PARSE_INTERVAL) in the finally
\*       "done"   Consumer.start returned

\* the locks the consumer task holds, one set after the other, in the two
\* reads of a pass: fetch_collected_data, then fetch_ticker_daily
ReadLocks == <<{"open_interest"}, {"ticker_daily"}>>

\* a faulty variant of ReadSettings: the object given to the constructor is kept
ReadSettingsCached == [settings EXCEPT !.id = 0]

\* a read of self._settings
ReadSettings == settings

\* a faulty variant of TickSkips: readiness is not checked
TickNeverSkips(st) == FALSE

\* Consumer.start skips the tick
TickSkips(st) == ~st.is_ready

\* a faulty variant of Evaluated: the cooldown is not consulted
EvaluatedNoCooldown(store, trk, daily, tnow) ==
  {s \in Keys(store) : s \in DOMAIN daily}

\* a faulty variant of Evaluated: a symbol without a ticker entry goes on
EvaluatedNoDaily(store, trk, daily, tnow) ==
  {s \in Keys(store) : ~IsBlocked(trk, s, tnow)}

\* the symbols of the pass that reach _process_symbol
Evaluated(store, trk, daily, tnow) ==
  {s \in Keys(store) : ~IsBlocked(trk, s, tnow) /\ s \in DOMAIN daily}

\* a faulty variant of AfterGet: a lookup that misses leaves an entry behind
AfterGetInserting(cache, keys) ==
  [s \in DOMAIN cache \cup keys |->
     IF s \in DOMAIN cache THEN cache[s] ELSE DailyStat]

\* the ticker cache after all_ticker_daily.get(symbol) for the symbols keys:
\* dict.get adds no key and changes no entry
AfterGet(cache, keys) == cache

\* the block _process puts on the symbols it created a task for
BlockFired(trk, fire, duration, tnow) ==
  [k \in DOMAIN trk \cup fire |->
     IF k \in fire THEN Block(trk, k, duration, tnow)[k] ELSE trk[k]]

\* one run of Consumer.start from a wake-up to its next suspension: the while
\* condition, the readiness check and the pass of _process over the symbols
\* (fetch_collected_data and fetch_ticker_daily find their locks free, and
\* _process_symbol never suspends)
ConsumerTick ==
  /\ c_pc \in {"start", "sleep"}
  /\ IF ~c_running
       THEN /\ c_pc' = "done"
            /\ UNCHANGED <<tracker, tasks, c_tasks, lastSent, c_obs, ticker_daily>>
       ELSE LET st == ReadSettings IN
            IF TickSkips(st)
              THEN /\ c_pc' = "sleep"
                   /\ c_obs' = [n |-> ~c_obs.n, latest |-> settings.id,
                                reads |-> {<<"is_ready", st.id>>},
                                fetched |-> {}, torn |-> FALSE, merged |-> {},
                                fired |-> {}, suppressed |-> {}, raised |-> FALSE,
                                afterRaise |-> c_obs.raised, locks |-> <<>>]
                   /\ UNCHANGED <<tracker, tasks, c_tasks, lastSent, ticker_daily>>
              ELSE LET all_klines == open_interest
                       all_ticker_daily == ticker_daily
                       ev == Evaluated(all_klines, tracker, all_ticker_daily, now)
                       pct == [s \in Symbols |->
                                 CalculateOpenInterest(all_klines[s],
                                                       ReadSettings.interval, now)]
                       fire == {s \in ev :
                                  SymbolFires(pct[s], ReadSettings.min_growth_prct)}
                       new == {[sym |-> s, at |-> now] : s \in fire}
                   IN  /\ ticker_daily' =
                            AfterGet(all_ticker_daily,
                                     {s \in Keys(all_klines) :
                                        ~IsBlocked(tracker, s, now)})
                       /\ tracker' = BlockFired(tracker, fire, ReadSettings.timeout, now)
                       /\ tasks' = tasks \cup new
                       /\ c_tasks' = new
                       /\ lastSent' = [s \in Symbols |->
                                         IF s \in fire
                                           THEN [at |-> now,
                                                 cooldown |-> ReadSettings.timeout,
                                                 n |-> lastSent[s].n + 1]
                                           ELSE lastSent[s]]
                       /\ c_pc' = IF fire # {} THEN "gather" ELSE "sleep"
                       /\ c_obs' =
                            [n |-> ~c_obs.n, latest |-> settings.id,
                             raised |-> FALSE, afterRaise |-> c_obs.raised,
                             locks |-> ReadLocks,
                             merged |-> IF lastMerge.done THEN lastMerge.syms ELSE {},
                             reads |->
                               {<<"is_ready", st.id>>}
                               \cup {<<"interval", ReadSettings.id>> : s \in ev}
                               \cup {<<"min_growth_prct", ReadSettings.id>> :
                                       s \in {x \in ev : Truthy(pct[x])}}
                               \cup {<<f, ReadSettings.id>> :
                                       f \in IF fire = {} THEN {}
                                             ELSE {"bot_token", "chat_id", "timeout"}},
                             fetched |-> {"open_interest", "ticker_daily"},
                             torn |-> (all_klines # oi_committed),
                             fired |-> fire,
                             suppressed |->
                               {s \in Keys(all_klines) :
                                  /\ IsBlocked(tracker, s, now)
                                  /\ s \in DOMAIN all_ticker_daily
                                  /\ SymbolFires(pct[s], settings.min_growth_prct)}]
  /\ UNCHANGED <<settings, c_running, c_exc>>
  /\ UNCHANGED <<envVars, prodVars, batchVars, t_pc, t_got, calcVars>>

\* asyncio.gather returns: every task of the tick finished without raising
ConsumerGatherDone ==
  /\ c_pc = "gather"
  /\ ~c_exc
  /\ c_tasks \cap tasks = {}
  /\ c_pc' = "sleep"
  /\ c_tasks' = {}
  /\ UNCHANGED <<settings, c_running, tracker, tasks, c_exc, lastSent, c_obs>>
  /\ UNCHANGED <<envVars, prodVars, batchVars, tickVars, calcVars>>

\* asyncio.gather raises the first exception of its tasks; Consumer.start
\* logs it; the other tasks go on
ConsumerGatherRaise ==
  /\ c_pc = "gather"
  /\ c_exc
  /\ c_pc' = "sleep"
  /\ c_tasks' = {}
  /\ c_exc' = FALSE
  /\ c_obs' = [c_obs EXCEPT !.raised = TRUE]
  /\ UNCHANGED <<settings, c_running, tracker, tasks, lastSent>>
  /\ UNCHANGED <<envVars, prodVars, batchVars, tickVars, calcVars>>

\* a notification task finishes: send_message returned
NotifyOk ==
  /\ \E t \in tasks : tasks' = tasks \ {t}
  /\ UNCHANGED <<settings, c_running, c_pc, tracker, c_tasks, c_exc, lastSent, c_obs>>
  /\ UNCHANGED <<envVars, prodVars, batchVars, tickVars, calcVars>>

\* a notification task finishes: send_message raised
NotifyFail ==
  /\ \E t \in tasks :
       /\ tasks' = tasks \ {t}
       /\ c_exc' = (c_exc \/ (c_pc = "gather" /\ t \in c_tasks))
  /\ UNCHANGED <<settings, c_running, c_pc, tracker, c_tasks, lastSent, c_obs>>
  /\ UNCHANGED <<envVars, prodVars, batchVars, tickVars, calcVars>>

\* Consumer.update_settings
UpdateSettings ==
  /\ settings.id < MaxUpdates
  /\ \E sv \in SettingsValues : settings' = WithId(sv, settings.id + 1)
  /\ UNCHANGED <<c_running, c_pc, tracker, tasks, c_tasks, c_exc, lastSent, c_obs>>
  /\ UNCHANGED <<envVars, prodVars, batchVars, tickVars, calcVars>>

\* Consumer.stop
ConsumerStop ==
  /\ c_running
  /\ c_running' = FALSE
  /\ UNCHANGED <<settings, c_pc, tracker, tasks, c_tasks, c_exc, lastSent, c_obs>>
  /\ UNCHANGED <<envVars, prodVars, batchVars, tickVars, calcVars>>

(* ------------------- _calculate_open_interest alone ------------------- *)
\* one call of Consumer._calculate_open_interest on calc_in
Calculate ==
  /\ calc_out' = CalculateOpenInterest(calc_in, settings.interval, now)
  /\ UNCHANGED calc_in
  /\ UNCHANGED <<envVars, prodVars, batchVars, tickVars, consVars>>

\* the body of the for loop of Consumer._process for one symbol whose window
\* is calc_in: _process_symbol computes the growth and may create the task,
\* and a created task is followed by the block
ProcessOne ==
  /\ ~IsBlocked(tracker, "A", now)
  /\ LET change_pct == CalculateOpenInterest(calc_in, settings.interval, now)
         task == SymbolFires(change_pct, settings.min_growth_prct)
     IN  /\ calc_out' = change_pct
         /\ tasks' = IF task THEN tasks \cup {[sym |-> "A", at |-> now]} ELSE tasks
         /\ tracker' = IF task THEN Block(tracker, "A", settings.timeout, now)
                               ELSE tracker
  /\ UNCHANGED calc_in
  /\ UNCHANGED <<settings, c_running, c_pc, c_tasks, c_exc, lastSent, c_obs>>
  /\ UNCHANGED <<envVars, prodVars, batchVars, tickVars>>

(* --------------------------- specifications --------------------------- *)
\* the whole program
Next ==
  \/ Tick
  \/ ProducerStart
  \/ ProducerFetchOk
  \/ BatchClientOk
  \/ BatchListOk
  \/ BatchResponse
  \/ BatchGatherDone
  \/ BatchPauseDone
  \/ ProducerMerge
  \/ ProducerFail
  \/ ProducerWake
  \/ ProducerStop
  \/ TickerWake
  \/ TickerFetchOk
  \/ TickerFetchFail
  \/ ConsumerTick
  \/ ConsumerGatherDone
  \/ ConsumerGatherRaise
  \/ NotifyOk
  \/ NotifyFail
  \/ UpdateSettings
  \/ ConsumerStop

Spec == Init /\ [][Next]_vars

(* ------------------------------ slices -------------------------------- *)
\* Each slice runs a part of the program from its initial state, the rest
\* standing still, with the environment (the exchange's symbols, the length
\* of the run, the first settings) fixed.
ReadySettings == WithId(SettingsValue(TRUE, 25, ClockStep), 0)

\* acquisition: the producer and the clock
InitAcq ==
  /\ Init
  /\ parse_interval = 1
  /\ universe = {"A", "B"}
  /\ ~batched
  /\ t_end = MaxTicks * ClockStep
  /\ settings = ReadySettings
NextAcq ==
  \/ Tick
  \/ ProducerStart
  \/ ProducerFetchOk
  \/ ProducerMerge
  \/ ProducerFail
  \/ ProducerWake
SpecAcq == InitAcq /\ [][NextAcq]_vars

\* detection over one symbol: the producer and the ticker sub-loop without
\* failures, the consumer, its notifications, the settings and the clock
InitDet ==
  /\ Init
  /\ parse_interval = 1
  /\ universe = {"A"}
  /\ ~batched
  /\ t_end = ClockStep
NextDet ==
  \/ Tick
  \/ ProducerStart
  \/ ProducerFetchOk
  \/ ProducerMerge
  \/ ProducerWake
  \/ TickerWake
  \/ TickerFetchOk
  \/ ConsumerTick
  \/ ConsumerGatherDone
  \/ NotifyOk
  \/ UpdateSettings
SpecDet == InitDet /\ [][NextDet]_vars

\* detection ticks against merges of two symbols, the clock standing still
InitObs ==
  /\ Init
  /\ parse_interval = 1
  /\ universe = {"A", "B"}
  /\ ~batched
  /\ t_end = 0
  /\ settings = ReadySettings
NextObs ==
  \/ ProducerStart
  \/ ProducerFetchOk
  \/ ProducerMerge
  \/ ProducerWake
  \/ TickerWake
  \/ TickerFetchOk
  \/ ConsumerTick
  \/ ConsumerGatherDone
  \/ NotifyOk
SpecObs == InitObs /\ [][NextObs]_vars

\* the growth computation alone, on every short window of samples that lie
\* before and inside the lookback
CalcItems == {OIItem(t, v) : t \in {0, ClockStep * MsPerSec}, v \in CalcValues}
CalcInputs == UNION {[1..n -> CalcItems] : n \in 0..MaxCalcLen}
InitCalc ==
  /\ InitProgram
  /\ parse_interval = 1
  /\ universe = {}
  /\ ~batched
  /\ t_end = 2 * ClockStep
  /\ settings \in {ReadySettings, WithId(SettingsValue(TRUE, -1, ClockStep), 0)}
  /\ now = 2 * ClockStep
  /\ calc_in \in CalcInputs
  /\ calc_out = NotCalled
NextCalc == Calculate \/ ProcessOne
SpecCalc == InitCalc /\ [][NextCalc]_vars

\* batched acquisition: three symbols, requested in chunks
InitBatch ==
  /\ Init
  /\ parse_interval = 1
  /\ universe = Symbols
  /\ batched
  /\ t_end = 0
  /\ settings = ReadySettings
NextBatch ==
  \/ ProducerStart
  \/ BatchClientOk
  \/ BatchListOk
  \/ BatchResponse
  \/ BatchGatherDone
  \/ BatchPauseDone
  \/ ProducerMerge
  \/ ProducerFail
  \/ ProducerWake
SpecBatch == InitBatch /\ [][NextBatch]_vars

\* both loops with their failures and their stop, one symbol, under the
\* scheduling of asyncio: a task that can run is run, and an awaited call
\* returns or raises
(* --- the slice of C13: detection over three instants, settings fixed ----- *)
InitCool ==
  /\ Init
  /\ parse_interval = 1
  /\ universe = {"A"}
  /\ ~batched
  /\ t_end = 2 * ClockStep
  /\ settings \in {ReadySettings, WithId(SettingsValue(TRUE, 25, 2 * ClockStep), 0)}
NextCool ==
  \/ Tick
  \/ ProducerStart
  \/ ProducerFetchOk
  \/ ProducerMerge
  \/ ProducerWake
  \/ TickerWake
  \/ TickerFetchOk
  \/ ConsumerTick
  \/ ConsumerGatherDone
  \/ NotifyOk
SpecCool == InitCool /\ [][NextCool]_vars

\* C13: the tracker of the detection loop, at every instant: a symbol never
\* blocked has no entry and is not blocked; a symbol last blocked at t for d
\* has the deadline t + d (whatever deadline an earlier block left), is
\* blocked while now < t + d and is not blocked from t + d on
C13_BlockedUntilDeadline ==
  \A s \in Symbols :
    IF lastSent[s].n = 0
      THEN s \notin DOMAIN tracker /\ ~IsBlocked(tracker, s, now)
      ELSE /\ s \in DOMAIN tracker
           /\ tracker[s] = lastSent[s].at + lastSent[s].cooldown
           /\ IsBlocked(tracker, s, now)
                <=> (lastSent[s].at <= now
                       /\ now < lastSent[s].at + lastSent[s].cooldown)

\* C13 happens: a symbol was blocked a second time, later than the deadline of
\* its first block, and is blocked
C13_Witness ==
  \E s \in Symbols :
    /\ lastSent[s].n = 2
    /\ lastSent[s].at = 2 * ClockStep
    /\ IsBlocked(tracker, s, now)

(* --- the slice of C14: the daily-ticker sub-loop -------------------------- *)
InitTick ==
  /\ Init
  /\ parse_interval = 1
  /\ universe = Symbols
  /\ ~batched
  /\ t_end = MaxTicks * ClockStep
  /\ settings = ReadySettings
NextTick ==
  \/ Tick
  \/ ProducerStart
  \/ TickerWake
  \/ TickerFetchOk
  \/ TickerFetchFail
  \/ ProducerStop
SpecTick ==
  /\ InitTick
  /\ [][NextTick]_vars
  /\ WF_vars(TickerWake \/ TickerFetchOk \/ TickerFetchFail)

\* C14: after a cycle whose fetch returned, the cache is the fetched snapshot
\* and nothing else, until the next cycle ends; a cycle whose fetch raises
\* leaves the cache as it was and the sub-loop in its sleep, from which it
\* goes on to the next fetch unless the producer is stopped
C14_CacheReplacedWholesale ==
  /\ [](t_got.ok => ticker_daily = t_got.snap)
  /\ [][(t_pc = "fetch" /\ t_pc' # "fetch" /\ ~t_got'.ok)
          => (ticker_daily' = ticker_daily /\ t_pc' = "sleep")]_vars
  /\ (t_pc = "sleep" /\ ~t_got.ok) ~> (t_pc = "fetch" \/ ~p_running)

\* C14 happens: a fetch has raised, the sub-loop is in its sleep and the cache
\* is still the snapshot of an earlier cycle, one that lacks a symbol
C14_Witness ==
  /\ t_pc = "sleep"
  /\ ~t_got.ok
  /\ ticker_daily # Empty
  /\ "A" \notin DOMAIN ticker_daily

(* --- the slice of C16: a tick of two notifications, either may fail ------- *)
InitJoin ==
  /\ Init
  /\ parse_interval = 1
  /\ universe = {"A", "B"}
  /\ ~batched
  /\ t_end = 0
  /\ settings = ReadySettings
NextJoin ==
  \/ ProducerStart
  \/ ProducerFetchOk
  \/ ProducerMerge
  \/ ProducerWake
  \/ TickerWake
  \/ TickerFetchOk
  \/ ConsumerTick
  \/ ConsumerGatherDone
  \/ ConsumerGatherRaise
  \/ NotifyOk
  \/ NotifyFail
SpecJoin == InitJoin /\ [][NextJoin]_vars

\* C16: the detection loop is past a tick (in its sleep, or ended) only when
\* every notification task the tick created has finished, also when one of
\* them has failed
C16_TickJoinsItsNotifications ==
  c_pc \in {"sleep", "done"} =>
    \A t \in tasks : ~(t.sym \in c_obs.fired /\ t.at = lastSent[t.sym].at)

(* --- the slice of C17: one batched iteration beside the other two loops --- *)
InitChunk ==
  /\ Init
  /\ parse_interval = 1
  /\ universe = Symbols
  /\ batched
  /\ t_end = 0
  /\ settings = ReadySettings
NextChunk ==
  \/ ProducerStart
  \/ BatchClientOk
  \/ BatchListOk
  \/ BatchResponse
  \/ BatchGatherDone
  \/ BatchPauseDone
  \/ ProducerMerge
  \/ TickerWake
  \/ TickerFetchOk
  \/ ConsumerTick
SpecChunk == InitChunk /\ [][NextChunk]_vars

\* the requests of the iteration issued and not yet completed
InFlight ==
  IF p_pc \in {"gather", "pause"}
    THEN UNION {SeqSet(Chunk(k)) : k \in 1..b_k} \ DOMAIN b_log
    ELSE {}

\* C17: the requests in flight are never more than the chunk size; the
\* requests of a next chunk are issued only from the pause, with every request
\* of the chunk before completed; and during the pause the ticker task and the
\* detection loop each have a step they can take
C17_ChunksOneAtATime ==
  /\ [](Cardinality(InFlight) <= ChunkSize)
  /\ [][(b_k' = b_k + 1 /\ b_k >= 1)
          => /\ p_pc = "pause"
             /\ SeqSet(Chunk(b_k)) \subseteq DOMAIN b_log
             /\ InFlight = {}]_vars
  /\ [](p_pc = "pause"
          => /\ ENABLED (TickerWake \/ TickerFetchOk)
             /\ ENABLED ConsumerTick)

\* C17 happens: the second chunk is in flight after a full first chunk, and
\* the ticker task and the detection loop have gone through a cycle
C17_Witness ==
  /\ p_pc = "gather"
  /\ b_k = 2
  /\ Cardinality(SeqSet(Chunk(1))) = ChunkSize
  /\ InFlight = SeqSet(Chunk(2))
  /\ InFlight # {}
  /\ t_got.ok
  /\ c_obs.fetched # {}

\* C18: a detection tick leaves the store and the ticker cache as they are,
\* and a step of the acquisition loop or of the ticker task leaves the
\* cooldown tracker as it is
C18_OwnershipRespected ==
  /\ [][c_obs'.n # c_obs.n
          => /\ open_interest' = open_interest
             /\ Keys(open_interest') = Keys(open_interest)
             /\ ticker_daily' = ticker_daily]_vars
  /\ [][(prodVars' # prodVars \/ batchVars' # batchVars \/ tickVars' # tickVars)
          => tracker' = tracker]_vars

\* C18 happens: a tick has dispatched and armed the tracker while a symbol of
\* the store had no entry in the ticker cache
C18_Witness ==
  /\ c_obs.fired # {}
  /\ c_pc = "gather"
  /\ DOMAIN tracker # {}
  /\ \E s \in Keys(open_interest) : s \notin DOMAIN ticker_daily

\* C19: a step arms the tracker for a symbol exactly when it creates a
\* notification task for it (so the blocks and the tasks of a symbol are
\* equal in number, and nothing comes between the two), and only for a symbol
\* that was not blocked and had an entry in the ticker cache
C19_ArmedWithDispatch ==
  [][\A s \in Symbols :
       LET armed == /\ s \in DOMAIN tracker'
                    /\ (s \in DOMAIN tracker => tracker'[s] # tracker[s])
           created == lastSent'[s].n = lastSent[s].n + 1
       IN  /\ armed <=> created
           /\ lastSent'[s].n \in {lastSent[s].n, lastSent[s].n + 1}
           /\ created => [sym |-> s, at |-> now] \in tasks'
           /\ armed => /\ ~IsBlocked(tracker, s, now)
                        /\ s \in DOMAIN ticker_daily]_vars

\* C19 happens: the task of a symbol's second dispatch is running and the
\* symbol is blocked from the instant of that dispatch
C19_Witness ==
  \E s \in Symbols :
    /\ lastSent[s].n = 2
    /\ [sym |-> s, at |-> lastSent[s].at] \in tasks
    /\ c_pc = "gather"
    /\ tracker[s] = now + lastSent[s].cooldown

(* --- the slice of C20: iterations, bulk or batched, that may fail --------- *)
InitFail ==
  /\ Init
  /\ parse_interval = 1
  /\ universe = {"A", "B"}
  /\ t_end = 2 * ClockStep
  /\ settings = ReadySettings
NextFail ==
  \/ Tick
  \/ ProducerStart
  \/ ProducerFetchOk
  \/ BatchClientOk
  \/ BatchListOk
  \/ BatchResponse
  \/ BatchGatherDone
  \/ BatchPauseDone
  \/ ProducerMerge
  \/ ProducerFail
  \/ ProducerWake
SpecFail == InitFail /\ [][NextFail]_vars

\* C20: from the start of an iteration to its merge the store is the store
\* the last merge left, and the step in which an awaited call of the
\* iteration raises changes nothing in it: no sample added, none dropped
C20_FailedIterationKeepsStore ==
  /\ [](p_pc \in {"fetch", "list", "gather", "pause", "held"}
          => open_interest = oi_committed)
  /\ [][(p_pc \in {"fetch", "list", "held"} /\ lastMerge'.failed
            /\ p_pc' \in {"sleep", "done"})
          => /\ open_interest' = open_interest
             /\ open_interest' = oi_committed']_vars

\* C20 happens: an iteration has failed, at an instant at which a merge would
\* have pruned a sample of the store, and the sample is there
C20_Witness ==
  /\ lastMerge.failed
  /\ p_pc = "sleep"
  /\ \E s \in Keys(open_interest) :
       open_interest[s][1].t < (now - MAX_HISTORY_LEN) * MsPerSec

(* --- the slice of C12: the acquisition loop and its stop ----------------- *)
InitStop ==
  /\ Init
  /\ universe = {"A"}
  /\ ~batched
  /\ t_end = 0
  /\ settings = ReadySettings
NextStop ==
  \/ ProducerStart
  \/ ProducerFetchOk
  \/ ProducerMerge
  \/ ProducerFail
  \/ ProducerWake
  \/ ProducerStop
SpecStop ==
  /\ InitStop
  /\ [][NextStop]_vars
  /\ WF_vars(ProducerStart \/ ProducerFetchOk \/ ProducerMerge
               \/ ProducerFail \/ ProducerWake)

\* C12: with the flag down during the sleep between two iterations, a step
\* of the loop neither goes on to another pass of the sleep nor starts an
\* iteration: the sleep(1) in progress is the last, and the loop ends; this
\* for every polling interval, the two of the program included
C12_StopEndsSleep ==
  /\ [][(~p_running /\ p_pc = "sleep")
          => \/ p_pc' = "sleep" /\ p_left' = p_left
             \/ p_pc' = "done"]_vars
  /\ [][~p_running => (p_pc' = "fetch" => p_pc = "fetch")]_vars
  /\ (~p_running /\ p_pc = "sleep") ~> (p_pc = "done")

\* the loop has ended on a stop that came with passes of the longest sleep
\* still to come
C12_Witness ==
  /\ p_pc = "done"
  /\ ~p_running
  /\ p_cut > 1
  /\ parse_interval = ASTER_PARSE_INTERVAL

InitLive ==
  /\ Init
  /\ parse_interval = 1
  /\ universe = {"A"}
  /\ ~batched
  /\ t_end = 0
  /\ settings = ReadySettings
ProducerStep ==
  ProducerStart \/ ProducerFetchOk \/ ProducerMerge \/ ProducerFail \/ ProducerWake
TickerStep == TickerWake \/ TickerFetchOk \/ TickerFetchFail
ConsumerStep == ConsumerTick \/ ConsumerGatherDone \/ ConsumerGatherRaise
NotifyStep == NotifyOk \/ NotifyFail
NextLive ==
  \/ ProducerStep
  \/ TickerStep
  \/ ConsumerStep
  \/ NotifyStep
  \/ ProducerStop
  \/ ConsumerStop
SpecLive ==
  /\ InitLive
  /\ [][NextLive]_vars
  /\ WF_vars(ProducerStep)
  /\ WF_vars(TickerStep)
  /\ WF_vars(ConsumerStep)
  /\ WF_vars(NotifyStep)

(* ------------------------------ claims -------------------------------- *)
\* the growth of a window as the detection loop computes it in this state
GrowthNow(s) == CalculateOpenInterest(open_interest[s], settings.interval, now)

\* C1: a dispatch for a symbol comes no earlier than the cooldown after the
\* dispatch before it for the same symbol: if lastSent[s] changes from a
\* dispatch at t1 with cooldown d (the cooldownSeconds in effect at t1) to a
\* dispatch at t2, then t2 >= t1 + d.  Time never runs back, so no dispatch
\* at all falls in (t1, t1 + d).
C1_AtMostOncePerCooldown ==
  [][\A s \in Symbols :
       (lastSent'[s] # lastSent[s] /\ lastSent[s].n > 0)
         => lastSent'[s].at >= lastSent[s].at + lastSent[s].cooldown]_vars

\* C1 happens: a symbol was dispatched, dispatched again once its cooldown was
\* over, and then suppressed by the cooldown in a tick in which its growth
\* condition held
C1_Witness ==
  \E s \in Symbols : lastSent[s].n >= 2 /\ s \in c_obs.suppressed

\* C2: the store a detection tick reads is the store as a whole merge left it
\* (before or after any merge, never part of one), and whenever a tick can
\* start the store is in such a state
C2_SnapshotNeverTorn ==
  /\ ~c_obs.torn
  /\ (c_pc \in {"start", "sleep"} => open_interest = oi_committed)

\* C2 happens: a tick read the store right after a merge of two symbols, and
\* evaluated both
C2_Witness ==
  /\ Cardinality(c_obs.merged) = 2
  /\ c_obs.fetched # {}
  /\ Cardinality(c_obs.fired) = 2

\* the positions of calc_in inside the lookback
InLookback ==
  {i \in 1..Len(calc_in) :
     calc_in[i].t >= (now - settings.interval) * MsPerSec}
\* the smallest value inside the lookback, and the first position that has it
LookbackMin == CHOOSE m \in {calc_in[i].v : i \in InLookback} :
                 \A i \in InLookback : m <= calc_in[i].v
FirstMinPos == CHOOSE i \in InLookback :
                 /\ calc_in[i].v = LookbackMin
                 /\ \A j \in InLookback : calc_in[j].v = LookbackMin => i <= j
\* the largest value inside the lookback at or after that position
MaxAfterMin == CHOOSE M \in {calc_in[i].v : i \in InLookback} :
                 /\ \E i \in InLookback : i >= FirstMinPos /\ calc_in[i].v = M
                 /\ \A i \in InLookback : i >= FirstMinPos => calc_in[i].v <= M
ExampleWindow ==
  [i \in 1..4 |-> OIItem(ClockStep * MsPerSec, <<100, 80, 150, 90>>[i])]

\* C3: _calculate_open_interest looks only at the samples with timestamp >=
\* (now - lookbackSeconds) * 1000; if there is one and the smallest value min
\* among them is not zero, the result is (max - min) / min * 100 with max the
\* largest value among them at or after the first occurrence of min; the
\* values 100, 80, 150, 90 inside the lookback give 87.5
C3_GrowthAfterLastMinimum ==
  calc_out # NotCalled =>
    /\ (InLookback # {} /\ LookbackMin # 0)
         => /\ calc_out.def
            /\ calc_out.num * LookbackMin
                 = (MaxAfterMin - LookbackMin) * Hundred * calc_out.den
    /\ calc_in = ExampleWindow
         => calc_out.def /\ calc_out.num * 2 = 175 * calc_out.den

\* C3 happens: the growth of 100, 80, 150, 90, all inside the lookback, was
\* computed as 87.5
C3_Witness ==
  /\ calc_in = ExampleWindow
  /\ InLookback = 1..4
  /\ calc_out.def
  /\ calc_out.num * 2 = 175 * calc_out.den

\* C4 as stated: after a merge at time `at`, every sample of every symbol of
\* the store has timestamp >= (at - retentionHorizon), in milliseconds
C4_AllSamplesWithinHorizon ==
  lastMerge.done =>
    \A s \in Keys(open_interest) :
      \A i \in 1..Len(open_interest[s]) :
        open_interest[s][i].t >= (lastMerge.at - MAX_HISTORY_LEN) * MsPerSec

\* C4 amended: after a merge at time `at`, for every symbol of the merged
\* snapshot, every sample kept from before the merge (every sample but the
\* one just appended) has timestamp >= (at - retentionHorizon)
C4_KeptSamplesWithinHorizon ==
  lastMerge.done =>
    \A s \in lastMerge.syms :
      \A i \in 1..(Len(open_interest[s]) - 1) :
        open_interest[s][i].t >= (lastMerge.at - MAX_HISTORY_LEN) * MsPerSec

\* C4 amended happens: a merge at two horizons past the start kept, for a
\* symbol of its snapshot, a sample that lies on the horizon
C4_Witness ==
  /\ lastMerge.done
  /\ lastMerge.at = 2 * MAX_HISTORY_LEN
  /\ \E s \in lastMerge.syms :
       /\ Len(open_interest[s]) = 2
       /\ open_interest[s][1].t = (lastMerge.at - MAX_HISTORY_LEN) * MsPerSec

\* the samples of seq from position i on with timestamp >= threshold, in order
RECURSIVE KeptFrom(_, _, _)
KeptFrom(seq, i, threshold) ==
  IF i > Len(seq) THEN <<>>
  ELSE IF seq[i].t >= threshold
    THEN <<seq[i]>> \o KeptFrom(seq, i + 1, threshold)
    ELSE KeptFrom(seq, i + 1, threshold)

ProcessingTick ==
  /\ c_pc \in {"start", "sleep"}
  /\ c_running
  /\ settings.is_ready
  /\ c_obs'.n # c_obs.n

\* C6 as stated: in a tick with ready settings, a symbol of the window snapshot
\* that is not blocked and has a daily-ticker entry gets a notification task
\* and a block of cooldownSeconds exactly if its growth is defined and greater
\* than minGrowthPct
C6_DispatchIffGrowthAbove ==
  [][ProcessingTick
       => \A s \in Keys(open_interest) :
            (~IsBlocked(tracker, s, now) /\ s \in DOMAIN ticker_daily)
              => (([sym |-> s, at |-> now] \in tasks' \ tasks
                    /\ s \in DOMAIN tracker'
                    /\ tracker'[s] = now + settings.timeout)
                  <=> (GrowthNow(s).def
                        /\ PctGreater(GrowthNow(s), settings.min_growth_prct)))]_vars

\* C11: _calculate_open_interest never raises (its result is never a quotient
\* by zero): with no sample inside the lookback, and with a smallest
\* in-lookback value of zero, the result is undefined, and the symbol then
\* gets no notification task and no block
C11_UndefinedGrowthNoAlert ==
  calc_out # NotCalled =>
    /\ calc_out.den # 0
    /\ (InLookback = {} \/ LookbackMin = 0)
         => /\ calc_out = NoPct
            /\ tasks = {}
            /\ tracker = Empty

\* C11 happens: the loop body ran on a window whose in-lookback minimum is
\* zero and whose maximum is not, and found the growth undefined
C11_Witness ==
  /\ calc_out = NoPct
  /\ InLookback # {}
  /\ LookbackMin = 0
  /\ MaxAfterMin > 0
  /\ tasks = {}
  /\ tracker = Empty

\* the symbols whose request of this iteration was answered with an item
Answered == {t \in DOMAIN b_log : b_log[t].kind = "item"}

\* C15: every merge into the store is made with the lock of the store held,
\* every replacement of the ticker cache with the lock of the cache held, and
\* no task holds the two locks at once
C15_MutationsUnderOwnLock ==
  /\ lastMerge.done => lastMerge.held = {"open_interest"}
  /\ t_got.ok => t_got.held = {"ticker_daily"}
  /\ \A i \in DOMAIN c_obs.locks : Cardinality(c_obs.locks[i]) <= 1

\* C7: in batched acquisition a request that raises or answers nothing takes
\* only its own symbol out of the snapshot: when the fetch returns, every
\* symbol of every chunk has been requested and the snapshot holds exactly the
\* items answered; the merge then appends exactly these to the store
C7_FailedRequestsOnlyDropTheirSymbol ==
  /\ p_pc = "held"
       => /\ DOMAIN b_log = universe
          /\ p_snapshot = [t \in Answered |-> b_log[t].item]
  /\ lastMerge.done
       => /\ lastMerge.syms = Answered
          /\ \A t \in Answered :
               open_interest[t][Len(open_interest[t])] = b_log[t].item

\* C7 happens: in the first chunk one request raised and the other was
\* answered, the second chunk followed, and the two items were merged
C7_Witness ==
  /\ lastMerge.done
  /\ b_log["A"].kind = "exc"
  /\ b_log["B"].kind = "item"
  /\ b_log["C"].kind = "item"
  /\ open_interest["A"] = <<>>
  /\ open_interest["B"] # <<>>
  /\ open_interest["C"] # <<>>

\* C8: no exception of an iteration ends its loop: unless it is stopped, the
\* acquisition loop starts an iteration again and again, and so does the
\* detection loop, whatever iterations fail
C8_LoopsSurviveFailures ==
  /\ (<>(~p_running) \/ []<><<p_pc # "fetch" /\ p_pc' = "fetch">>_vars)
  /\ (<>(~c_running) \/ []<><<ConsumerTick>>_vars)

\* C8 happens: an acquisition iteration failed and the next one has begun,
\* and a detection tick ran after a tick whose gather raised
C8_Witness ==
  /\ lastMerge.failed
  /\ p_pc = "fetch"
  /\ p_running
  /\ c_running
  /\ c_obs.afterRaise

\* C9: every settings read of a tick is a read of the object that the last
\* update_settings before the tick installed (or of a later one): the id read
\* is never below the id of the latest object when the tick began
C9_ReadsLatestSettings ==
  \A r \in c_obs.reads : r[2] >= c_obs.latest

\* C9 happens: after an update_settings a tick read every field of the settings
C9_Witness ==
  /\ c_obs.latest >= 1
  /\ {r[1] : r \in c_obs.reads} =
       {"is_ready", "interval", "min_growth_prct", "timeout", "bot_token", "chat_id"}

\* C10: while the settings are not ready and the detection loop is about to
\* start a tick, no step arms a cooldown, records a dispatch or creates a task;
\* the tick itself reads neither the store nor the ticker cache and leaves the
\* loop in its sleep
C10_NotReadyTickHasNoEffect ==
  [][(c_pc \in {"start", "sleep"} /\ c_running /\ ~settings.is_ready)
       => /\ tracker' = tracker
          /\ lastSent' = lastSent
          /\ tasks' \subseteq tasks
          /\ c_tasks' = c_tasks
          /\ c_exc' = c_exc
          /\ (c_obs'.n # c_obs.n
                => /\ c_pc' = "sleep"
                   /\ c_obs'.fetched = {}
                   /\ c_obs'.fired = {})]_vars

\* C10 happens: a tick was skipped although a symbol with a daily-ticker entry
\* and no block fulfilled a ready settings' growth condition
C10_Witness ==
  /\ c_pc = "sleep"
  /\ ~settings.is_ready
  /\ c_obs.reads = {<<"is_ready", settings.id>>}
  /\ c_obs.fetched = {}
  /\ \E s \in Keys(open_interest) :
       /\ s \in DOMAIN ticker_daily
       /\ ~IsBlocked(tracker, s, now)
       /\ SymbolFires(GrowthNow(s), ReadySettings.min_growth_prct)
====
